---- MODULE Spec2Model ----
(***************************************************************************)
(* yall: Yet Another Little Logger (src/src/lib.rs).                       *)
(*                                                                         *)
(* A verification model of the Logger: its LevelFilter arithmetic, the     *)
(* colour resolution done when the output stream is created, the layout    *)
(* print_log writes, the one-shot registration with the log facade, and    *)
(* the locked write cycle that concurrent callers of log and flush run.    *)
(***************************************************************************)
EXTENDS Integers, Sequences, FiniteSets, TLC

VARIABLES
    logger,         \* the Logger value being built (moved by try_init), or None
    arg,            \* the u8 argument of the verbosity calls of a run
    lastOp,         \* history: the last level operation and the level before it
    rt,             \* history: a verbose(d) .. quiet(d) round trip in progress
    mode,           \* history: the ColorMode of the last color() call, or "unset"
    probe,          \* history: what stderr and the environment said at the last
                    \* creation of the StandardStream
    isTerminal,     \* environment: io::stderr().is_terminal()
    envSuppresses,  \* environment: TERM / NO_COLOR tell termcolor not to colour
    slot,           \* the log crate's global logger: a Logger, or None
    maxLevel,       \* the log crate's global maximum level (log::max_level())
    lastInit,       \* history: the result of the last try_init
    delivered,      \* history: the last record sent through the log macros
    pc,             \* per thread: where it is inside log / flush
    op,             \* per thread: its current or last call, "log" or "flush"
    ncalls,         \* per thread: the calls it has made
    mutex,          \* Logger.out's Mutex: the thread holding it, or 0
    stream,         \* everything written to standard error, in order
    style,          \* the style standard error is left in by the escapes so far
    ioErrs,         \* the writes of print_log that returned an io::Error
    passed,         \* history: the calls <<thread, number>> that passed the level gate
    styled,         \* history, per thread: its current call has set a level style
    resetIssued,    \* history, per thread: its current call has called out.reset()
    record,         \* the log::Record the callers of a run submit
    fmtOut          \* what that print_log wrote, or None

vars == <<logger, arg, lastOp, rt, mode, probe, isTerminal, envSuppresses,
          slot, maxLevel, lastInit, delivered, pc, op, ncalls, mutex, stream,
          style, ioErrs, passed, styled, resetIssued, record, fmtOut>>

cfgVars  == <<logger, mode, probe>>
lvVars   == <<arg, lastOp, rt>>
envVars  == <<isTerminal, envSuppresses>>
regVars  == <<slot, maxLevel, lastInit, delivered>>
runVars  == <<pc, op, ncalls, mutex, stream, style, ioErrs, passed, styled,
              resetIssued>>
fmtVars  == <<record, fmtOut>>

\* Option::None, and the absence of a history entry
None == [none |-> TRUE]

(***************************************************************************)
(* log::Level and log::LevelFilter, and LevelFilterExt (lib.rs 111-152).   *)
(***************************************************************************)
Levels == {"Error", "Warn", "Info", "Debug", "Trace"}
LevelFilters == {"Off"} \cup Levels

\* u8::MAX: the width of the `change` and `val` arguments
U8Max == 255

from_int(val) ==
    CASE val = 0 -> "Off"
      [] val = 1 -> "Error"
      [] val = 2 -> "Warn"
      [] val = 3 -> "Info"
      [] val = 4 -> "Debug"
      [] OTHER   -> "Trace"

to_int(self) ==
    CASE self = "Off"   -> 0
      [] self = "Error" -> 1
      [] self = "Warn"  -> 2
      [] self = "Info"  -> 3
      [] self = "Debug" -> 4
      [] self = "Trace" -> 5

\* u8::saturating_add / u8::saturating_sub
saturating_add(a, b) == IF a + b > U8Max THEN U8Max ELSE a + b
saturating_sub(a, b) == IF a - b < 0 THEN 0 ELSE a - b

\* a u8 addition that wraps instead of saturating
add_wrapping(self, change) == from_int((to_int(self) + change) % (U8Max + 1))
add(self, change) == from_int(saturating_add(to_int(self), change))

\* a u8 subtraction that wraps instead of saturating
sub_wrapping(self, change) == from_int((to_int(self) - change) % (U8Max + 1))
sub(self, change) == from_int(saturating_sub(to_int(self), change))

(***************************************************************************)
(* ColorMode::to_color_choice and the StandardStream it configures.        *)
(***************************************************************************)
ColorModes == {"Auto", "Always", "Never"}

\* Auto handed to termcolor without asking whether stderr is a terminal
to_color_choice_no_tty(self, tty) ==
    CASE self = "Auto"   -> "Auto"
      [] self = "Always" -> "Always"
      [] self = "Never"  -> "Never"
to_color_choice(self, tty) ==
    CASE self = "Auto"   -> IF tty THEN "Auto" ELSE "Never"
      [] self = "Always" -> "Always"
      [] self = "Never"  -> "Never"

\* termcolor's StandardStream::stderr(choice): an Ansi writer when the choice
\* says to attempt colour, where ColorChoice::Auto consults TERM and NO_COLOR
\* at creation (lib.rs 57), and a NoColor writer otherwise.
StandardStream_stderr(choice, suppressed) ==
    CASE choice = "Always" -> "Ansi"
      [] choice = "Never"  -> "NoColor"
      [] choice = "Auto"   -> IF suppressed THEN "NoColor" ELSE "Ansi"

(***************************************************************************)
(* Logger: the constructors and the builder methods (lib.rs 186-237).      *)
(* Each takes the Logger by value and returns it.                          *)
(***************************************************************************)
with_level(level, tty, suppressed) ==
    [level |-> level,
     use_full_filename |-> FALSE,
     out |-> StandardStream_stderr(to_color_choice("Auto", tty), suppressed)]

new(tty, suppressed) == with_level("Info", tty, suppressed)

with_verbosity(level, tty, suppressed) == with_level(from_int(level), tty, suppressed)

verbose(self, change) == [self EXCEPT !.level = add(self.level, change)]

quiet(self, change) == [self EXCEPT !.level = sub(self.level, change)]

color(self, c, tty, suppressed) ==
    [self EXCEPT !.out = StandardStream_stderr(to_color_choice(c, tty), suppressed)]

full_filename(self, full) == [self EXCEPT !.use_full_filename = full]

\* Log::enabled with the comparison turned round
enabled_reversed(self, level) == to_int(level) >= to_int(self.level)
\* Log::enabled: m.level() <= self.level compares the two discriminants
enabled(self, level) == to_int(level) <= to_int(self.level)

(***************************************************************************)
(* Bounds of the model.                                                    *)
(***************************************************************************)
\* the largest verbosity / change argument of the builder runs
MaxDelta == 6

Deltas == 0 .. MaxDelta
U8 == 0 .. U8Max

NoOp == [op |-> "none", before |-> "Off"]
NoProbe == [tty |-> FALSE, sup |-> FALSE]

(***************************************************************************)
(* The parts of the state a run does not use stay as they are.             *)
(***************************************************************************)
IdleLv  == arg = 0 /\ lastOp = NoOp /\ rt = None
IdleReg == slot = None /\ maxLevel = "Off" /\ lastInit = "none" /\ delivered = None
IdleRun == /\ pc = <<>> /\ op = <<>> /\ ncalls = <<>> /\ mutex = 0
           /\ stream = <<>> /\ style = "plain" /\ ioErrs = 0 /\ passed = {}
           /\ styled = <<>> /\ resetIssued = <<>>
IdleFmt == record = None /\ fmtOut = None

(***************************************************************************)
(* Level arithmetic: a Logger of any level, and one u8 argument, to which  *)
(* with_verbosity, verbose and quiet are applied in any order.             *)
(***************************************************************************)
InitLevel ==
    /\ isTerminal = TRUE /\ envSuppresses = FALSE
    /\ \E l \in LevelFilters : logger = with_level(l, isTerminal, envSuppresses)
    /\ mode = "unset" /\ probe = [tty |-> isTerminal, sup |-> envSuppresses]
    /\ arg \in U8 /\ lastOp = NoOp /\ rt = None
    /\ IdleReg /\ IdleRun /\ IdleFmt

LvWithVerbosity ==
    /\ logger' = with_verbosity(arg, isTerminal, envSuppresses)
    /\ lastOp' = [op |-> "with_verbosity", before |-> logger.level]
    /\ rt' = None
    /\ UNCHANGED <<arg, mode, probe, envVars, regVars, runVars, fmtVars>>

LvVerbose ==
    /\ logger' = verbose(logger, arg)
    /\ lastOp' = [op |-> "verbose", before |-> logger.level]
    /\ rt' = [from |-> logger.level, stage |-> "up"]
    /\ UNCHANGED <<arg, mode, probe, envVars, regVars, runVars, fmtVars>>

LvQuiet ==
    /\ logger' = quiet(logger, arg)
    /\ lastOp' = [op |-> "quiet", before |-> logger.level]
    /\ rt' = IF rt # None /\ rt.stage = "up"
             THEN [from |-> rt.from, stage |-> "down"]
             ELSE None
    /\ UNCHANGED <<arg, mode, probe, envVars, regVars, runVars, fmtVars>>

NextLevel == LvWithVerbosity \/ LvVerbose \/ LvQuiet

SpecLevel == InitLevel /\ [][NextLevel]_vars

(***************************************************************************)
(* The builder: construction and the builder methods on the Logger being   *)
(* configured, while the terminal and the environment change around it.    *)
(***************************************************************************)
\* the panic of init (the expect on try_init's result) ends the program
Alive == lastInit # "panic"

CfgNew ==
    /\ Alive
    /\ logger' = new(isTerminal, envSuppresses)
    /\ mode' = "unset"
    /\ probe' = [tty |-> isTerminal, sup |-> envSuppresses]
    /\ UNCHANGED <<lvVars, envVars, regVars, runVars, fmtVars>>

CfgWithLevel(level) ==
    /\ Alive
    /\ logger' = with_level(level, isTerminal, envSuppresses)
    /\ mode' = "unset"
    /\ probe' = [tty |-> isTerminal, sup |-> envSuppresses]
    /\ UNCHANGED <<lvVars, envVars, regVars, runVars, fmtVars>>

CfgWithVerbosity(n) ==
    /\ Alive
    /\ logger' = with_verbosity(n, isTerminal, envSuppresses)
    /\ mode' = "unset"
    /\ probe' = [tty |-> isTerminal, sup |-> envSuppresses]
    /\ UNCHANGED <<lvVars, envVars, regVars, runVars, fmtVars>>

CfgVerbose(change) ==
    /\ Alive /\ logger # None
    /\ logger' = verbose(logger, change)
    /\ UNCHANGED <<mode, probe, lvVars, envVars, regVars, runVars, fmtVars>>

CfgQuiet(change) ==
    /\ Alive /\ logger # None
    /\ logger' = quiet(logger, change)
    /\ UNCHANGED <<mode, probe, lvVars, envVars, regVars, runVars, fmtVars>>

CfgColor(c) ==
    /\ Alive /\ logger # None
    /\ logger' = color(logger, c, isTerminal, envSuppresses)
    /\ mode' = c
    /\ probe' = [tty |-> isTerminal, sup |-> envSuppresses]
    /\ UNCHANGED <<lvVars, envVars, regVars, runVars, fmtVars>>

CfgFullFilename(full) ==
    /\ Alive /\ logger # None
    /\ logger' = full_filename(logger, full)
    /\ UNCHANGED <<mode, probe, lvVars, envVars, regVars, runVars, fmtVars>>

\* stderr is redirected, TERM or NO_COLOR is changed
EnvChange(tty, suppressed) ==
    /\ <<tty, suppressed>> # <<isTerminal, envSuppresses>>
    /\ isTerminal' = tty
    /\ envSuppresses' = suppressed
    /\ UNCHANGED <<cfgVars, lvVars, regVars, runVars, fmtVars>>

InitColor ==
    /\ isTerminal \in BOOLEAN /\ envSuppresses \in BOOLEAN
    /\ logger = None /\ mode = "unset" /\ probe = NoProbe
    /\ IdleLv /\ IdleReg /\ IdleRun /\ IdleFmt

NextColor ==
    \/ CfgNew
    \/ \E l \in LevelFilters : CfgWithLevel(l)
    \/ \E n \in Deltas : CfgWithVerbosity(n)
    \/ \E d \in Deltas : CfgVerbose(d)
    \/ \E d \in Deltas : CfgQuiet(d)
    \/ \E c \in ColorModes : CfgColor(c)
    \/ \E b \in BOOLEAN : CfgFullFilename(b)
    \/ \E t \in BOOLEAN, s \in BOOLEAN : EnvChange(t, s)

SpecColor == InitColor /\ [][NextColor]_vars

(***************************************************************************)
(* Registration with the log crate (lib.rs 239-249), and a record sent     *)
(* through the log macros to whatever logger is registered.                *)
(*                                                                         *)
(* log::set_max_level stores the level unconditionally;                    *)
(* log::set_boxed_logger installs the logger only if none is installed     *)
(* yet and returns SetLoggerError otherwise.                               *)
(***************************************************************************)
try_init ==
    /\ Alive /\ logger # None
    /\ maxLevel' = logger.level
    /\ IF slot = None
       THEN slot' = logger /\ lastInit' = "Ok"
       ELSE slot' = slot /\ lastInit' = "Err"
    /\ logger' = None
    /\ delivered' = None
    /\ UNCHANGED <<mode, probe, lvVars, envVars, runVars, fmtVars>>

\* init: try_init().expect("failed to initialize logger")
init ==
    /\ Alive /\ logger # None
    /\ maxLevel' = logger.level
    /\ IF slot = None
       THEN slot' = logger /\ lastInit' = "Ok"
       ELSE slot' = slot /\ lastInit' = "panic"
    /\ logger' = None
    /\ delivered' = None
    /\ UNCHANGED <<mode, probe, lvVars, envVars, runVars, fmtVars>>

\* the log macros: a record is built and handed to the logger only if its
\* level passes log::max_level()
MacroGate(level) == to_int(level) <= to_int(maxLevel)

\* whether a record of this level sent through the macros is written
Reaches(level) == MacroGate(level) /\ slot # None /\ enabled(slot, level)

Submit(level) ==
    /\ Alive
    /\ delivered' = [level |-> level, written |-> Reaches(level)]
    /\ UNCHANGED <<slot, maxLevel, lastInit, cfgVars, lvVars, envVars, runVars,
                   fmtVars>>

Init ==
    /\ isTerminal \in BOOLEAN /\ envSuppresses = FALSE
    /\ logger = None /\ mode = "unset" /\ probe = NoProbe
    /\ slot = None /\ maxLevel = "Off" /\ lastInit = "none" /\ delivered = None
    /\ IdleLv /\ IdleRun /\ IdleFmt

Next ==
    \/ CfgNew
    \/ \E l \in LevelFilters : CfgWithLevel(l)
    \/ \E n \in Deltas : CfgWithVerbosity(n)
    \/ \E d \in Deltas : CfgVerbose(d)
    \/ \E d \in Deltas : CfgQuiet(d)
    \/ try_init
    \/ init
    \/ \E l \in Levels : Submit(l)

Spec == Init /\ [][Next]_vars

(***************************************************************************)
(* Threads calling log and flush on the registered Logger (lib.rs          *)
(* 254-308).  The StandardStream writes straight to the unbuffered         *)
(* standard error, so set_color, the pieces of writeln! and reset are      *)
(* separate writes, each of which may return an io::Error.  The `?` on     *)
(* each returns from print_log at once, dropping the MutexGuard.  No       *)
(* thread panics while holding the Mutex, so lock().unwrap() never meets   *)
(* a poisoned Mutex.                                                       *)
(***************************************************************************)
\* the threads that log, the calls each makes, and the writes of print_log
\* that the stream refuses in a run
NThreads == 2
MaxCalls == 2
MaxIoErrors == 1

Threads == 1 .. NThreads

\* LogColors::get: the style of a level; the ColorSpec of Info is empty
StyleOf(l) ==
    CASE l = "Error" -> "bold red"
      [] l = "Warn"  -> "bold yellow"
      [] l = "Info"  -> "plain"
      [] l = "Debug" -> "cyan"
      [] l = "Trace" -> "blue"

\* what a call writes is tagged with the thread and the number of its call
Item(t, kind) == <<t, ncalls[t], kind>>

\* the `?` of print_log on an io::Error: print_log returns the Err, the
\* MutexGuard is dropped, and log goes on to report the failure
io_error(t) ==
    /\ ioErrs < MaxIoErrors
    /\ ioErrs' = ioErrs + 1
    /\ mutex' = 0
    /\ pc' = [pc EXCEPT ![t] = "eprintln_error"]

\* Log::log up to the call of print_log: the level gate, and print_log's
\* choice of the file name, which touch nothing shared
log(t) ==
    /\ pc[t] = "idle" /\ ncalls[t] < MaxCalls
    /\ ncalls' = [ncalls EXCEPT ![t] = @ + 1]
    /\ op' = [op EXCEPT ![t] = "log"]
    /\ styled' = [styled EXCEPT ![t] = FALSE]
    /\ resetIssued' = [resetIssued EXCEPT ![t] = FALSE]
    /\ IF enabled(slot, record.level)
       THEN /\ pc' = [pc EXCEPT ![t] = "lock"]
            /\ passed' = passed \cup {<<t, ncalls[t] + 1>>}
       ELSE /\ pc' = pc
            /\ passed' = passed
    /\ UNCHANGED <<mutex, stream, style, ioErrs, cfgVars, lvVars, envVars,
                   regVars, fmtVars>>

\* a lock() that does not wait for the Mutex to be free
lock_no_exclusion(t) ==
    /\ pc[t] = "lock"
    /\ mutex' = t
    /\ pc' = [pc EXCEPT ![t] = "set_color"]
    /\ UNCHANGED <<op, ncalls, stream, style, ioErrs, passed, styled,
                   resetIssued, cfgVars, lvVars, envVars, regVars, fmtVars>>
\* let mut out = self.out.lock().unwrap();
lock(t) ==
    /\ pc[t] = "lock" /\ mutex = 0
    /\ mutex' = t
    /\ pc' = [pc EXCEPT ![t] = "set_color"]
    /\ UNCHANGED <<op, ncalls, stream, style, ioErrs, passed, styled,
                   resetIssued, cfgVars, lvVars, envVars, regVars, fmtVars>>

\* out.set_color(self.colors.get(level))?;  a NoColor stream writes nothing
set_color(t, ok) ==
    /\ pc[t] = "set_color"
    /\ IF slot.out = "NoColor"
       THEN /\ ok
            /\ pc' = [pc EXCEPT ![t] = "write"]
            /\ UNCHANGED <<stream, style, styled, ioErrs, mutex>>
       ELSE IF ok
       THEN /\ stream' = Append(stream, Item(t, "set_color"))
            /\ style' = StyleOf(record.level)
            /\ styled' = [styled EXCEPT ![t] = StyleOf(record.level) # "plain"]
            /\ pc' = [pc EXCEPT ![t] = "write"]
            /\ UNCHANGED <<ioErrs, mutex>>
       ELSE /\ io_error(t)
            /\ UNCHANGED <<stream, style, styled>>
    /\ UNCHANGED <<op, ncalls, passed, resetIssued, cfgVars, lvVars, envVars,
                   regVars, fmtVars>>

\* writeln!(out, ...)?: the prefix and the message
write_text(t, ok) ==
    /\ pc[t] = "write"
    /\ IF ok
       THEN /\ stream' = Append(stream, Item(t, "text"))
            /\ pc' = [pc EXCEPT ![t] = "newline"]
            /\ UNCHANGED <<ioErrs, mutex>>
       ELSE /\ io_error(t)
            /\ UNCHANGED stream
    /\ UNCHANGED <<op, ncalls, style, passed, styled, resetIssued, cfgVars,
                   lvVars, envVars, regVars, fmtVars>>

\* writeln!(out, ...)?: the newline that ends the line
write_newline(t, ok) ==
    /\ pc[t] = "newline"
    /\ IF ok
       THEN /\ stream' = Append(stream, Item(t, "newline"))
            /\ pc' = [pc EXCEPT ![t] = "reset"]
            /\ UNCHANGED <<ioErrs, mutex>>
       ELSE /\ io_error(t)
            /\ UNCHANGED stream
    /\ UNCHANGED <<op, ncalls, style, passed, styled, resetIssued, cfgVars,
                   lvVars, envVars, regVars, fmtVars>>

\* out.reset()?; Ok(())  and the MutexGuard is dropped
reset(t, ok) ==
    /\ pc[t] = "reset"
    /\ resetIssued' = [resetIssued EXCEPT ![t] = TRUE]
    /\ IF slot.out = "NoColor"
       THEN /\ ok
            /\ mutex' = 0
            /\ pc' = [pc EXCEPT ![t] = "idle"]
            /\ UNCHANGED <<stream, style, ioErrs>>
       ELSE IF ok
       THEN /\ stream' = Append(stream, Item(t, "reset"))
            /\ style' = "plain"
            /\ mutex' = 0
            /\ pc' = [pc EXCEPT ![t] = "idle"]
            /\ UNCHANGED ioErrs
       ELSE /\ io_error(t)
            /\ UNCHANGED <<stream, style>>
    /\ UNCHANGED <<op, ncalls, passed, styled, cfgVars, lvVars, envVars,
                   regVars, fmtVars>>

\* eprintln!("LOGGING ERROR: ...", e): one locked write of the line to
\* standard error, without the Logger's Mutex; eprintln! panics when the
\* write fails
eprintln_error(t, ok) ==
    /\ pc[t] = "eprintln_error"
    /\ IF ok
       THEN /\ stream' = Append(stream, Item(t, "LOGGING ERROR"))
            /\ pc' = [pc EXCEPT ![t] = "eprintln_original"]
       ELSE /\ pc' = [pc EXCEPT ![t] = "panicked"]
            /\ UNCHANGED stream
    /\ UNCHANGED <<op, ncalls, mutex, style, ioErrs, passed, styled,
                   resetIssued, cfgVars, lvVars, envVars, regVars, fmtVars>>

\* eprintln!("Original message: {}: {}", r.level(), r.args());
eprintln_original(t, ok) ==
    /\ pc[t] = "eprintln_original"
    /\ IF ok
       THEN /\ stream' = Append(stream, Item(t, "Original message"))
            /\ pc' = [pc EXCEPT ![t] = "idle"]
       ELSE /\ pc' = [pc EXCEPT ![t] = "panicked"]
            /\ UNCHANGED stream
    /\ UNCHANGED <<op, ncalls, mutex, style, ioErrs, passed, styled,
                   resetIssued, cfgVars, lvVars, envVars, regVars, fmtVars>>

\* Log::flush is called
flush_call(t) ==
    /\ pc[t] = "idle" /\ ncalls[t] < MaxCalls
    /\ ncalls' = [ncalls EXCEPT ![t] = @ + 1]
    /\ op' = [op EXCEPT ![t] = "flush"]
    /\ pc' = [pc EXCEPT ![t] = "flush_lock"]
    /\ UNCHANGED <<mutex, stream, style, ioErrs, passed, styled, resetIssued,
                   cfgVars, lvVars, envVars, regVars, fmtVars>>

\* let mut out = self.out.lock().unwrap();
flush_lock(t) ==
    /\ pc[t] = "flush_lock" /\ mutex = 0
    /\ mutex' = t
    /\ pc' = [pc EXCEPT ![t] = "flush"]
    /\ UNCHANGED <<op, ncalls, stream, style, ioErrs, passed, styled,
                   resetIssued, cfgVars, lvVars, envVars, regVars, fmtVars>>

\* let _ = out.flush();  whatever it returns, and the MutexGuard is dropped
flush(t) ==
    /\ pc[t] = "flush"
    /\ mutex' = 0
    /\ pc' = [pc EXCEPT ![t] = "idle"]
    /\ UNCHANGED <<op, ncalls, stream, style, ioErrs, passed, styled,
                   resetIssued, cfgVars, lvVars, envVars, regVars, fmtVars>>

\* the record the callers of a run submit
RunRecord(l) == [level |-> l, args |-> <<"m">>, file |-> None, line |-> None]

\* the values the parts of the state outside Init's choice start with
RunStart(threads) ==
    /\ isTerminal = TRUE /\ envSuppresses = FALSE
    /\ logger = None /\ mode = "unset" /\ probe = NoProbe
    /\ maxLevel = slot.level /\ lastInit = "Ok" /\ delivered = None
    /\ fmtOut = None
    /\ pc = [t \in threads |-> "idle"]
    /\ op = [t \in threads |-> "none"]
    /\ ncalls = [t \in threads |-> 0]
    /\ mutex = 0 /\ stream = <<>> /\ style = "plain"
    /\ ioErrs = 0 /\ passed = {}
    /\ styled = [t \in threads |-> FALSE]
    /\ resetIssued = [t \in threads |-> FALSE]
    /\ IdleLv

\* the levels of the records the threads submit: one written in a style,
\* one written plain, one that the Info threshold drops
RunLevels == {"Error", "Info", "Trace"}

\* the registered Logger is Logger::new() (as in examples/perftest.rs), with
\* colour or without
InitRun ==
    /\ \E c \in {"Always", "Never"} : slot = color(new(TRUE, FALSE), c, TRUE, FALSE)
    /\ \E l \in RunLevels : record = RunRecord(l)
    /\ RunStart(Threads)

\* the steps of a call in progress
Step(t) ==
    \/ lock(t)
    \/ \E ok \in BOOLEAN : set_color(t, ok)
    \/ \E ok \in BOOLEAN : write_text(t, ok)
    \/ \E ok \in BOOLEAN : write_newline(t, ok)
    \/ \E ok \in BOOLEAN : reset(t, ok)
    \/ \E ok \in BOOLEAN : eprintln_error(t, ok)
    \/ \E ok \in BOOLEAN : eprintln_original(t, ok)
    \/ flush_lock(t)
    \/ flush(t)

NextRun ==
    \/ \E t \in Threads : log(t)
    \/ \E t \in Threads : lock(t)
    \/ \E t \in Threads, ok \in BOOLEAN : set_color(t, ok)
    \/ \E t \in Threads, ok \in BOOLEAN : write_text(t, ok)
    \/ \E t \in Threads, ok \in BOOLEAN : write_newline(t, ok)
    \/ \E t \in Threads, ok \in BOOLEAN : reset(t, ok)
    \/ \E t \in Threads, ok \in BOOLEAN : eprintln_error(t, ok)
    \/ \E t \in Threads, ok \in BOOLEAN : eprintln_original(t, ok)
    \/ \E t \in Threads : flush_call(t)
    \/ \E t \in Threads : flush_lock(t)
    \/ \E t \in Threads : flush(t)

SpecRun == InitRun /\ [][NextRun]_vars

\* a thread that is inside a call is scheduled again, and a thread waiting
\* for the Mutex gets it if it is free again and again
SpecFair ==
    /\ InitRun /\ [][NextRun]_vars
    /\ \A t \in Threads : WF_vars(Step(t))
    /\ \A t \in Threads : SF_vars(lock(t)) /\ SF_vars(flush_lock(t))

\* the same threads on a standard error that accepts every write
NextOk ==
    \/ \E t \in Threads : log(t)
    \/ \E t \in Threads : lock(t)
    \/ \E t \in Threads : set_color(t, TRUE)
    \/ \E t \in Threads : write_text(t, TRUE)
    \/ \E t \in Threads : write_newline(t, TRUE)
    \/ \E t \in Threads : reset(t, TRUE)
    \/ \E t \in Threads : flush_call(t)
    \/ \E t \in Threads : flush_lock(t)
    \/ \E t \in Threads : flush(t)

SpecOk == InitRun /\ [][NextOk]_vars

\* one caller, every threshold and every record level
Caller == {1}

InitGate ==
    /\ \E l \in LevelFilters, c \in {"Always", "Never"} :
          slot = color(with_level(l, TRUE, FALSE), c, TRUE, FALSE)
    /\ \E l \in Levels : record = RunRecord(l)
    /\ RunStart(Caller)

NextGate ==
    \/ \E t \in Caller : log(t)
    \/ \E t \in Caller : lock(t)
    \/ \E t \in Caller, ok \in BOOLEAN : set_color(t, ok)
    \/ \E t \in Caller, ok \in BOOLEAN : write_text(t, ok)
    \/ \E t \in Caller, ok \in BOOLEAN : write_newline(t, ok)
    \/ \E t \in Caller, ok \in BOOLEAN : reset(t, ok)
    \/ \E t \in Caller, ok \in BOOLEAN : eprintln_error(t, ok)
    \/ \E t \in Caller, ok \in BOOLEAN : eprintln_original(t, ok)
    \/ \E t \in Caller : flush_call(t)
    \/ \E t \in Caller : flush_lock(t)
    \/ \E t \in Caller : flush(t)

SpecGate == InitGate /\ [][NextGate]_vars

(***************************************************************************)
(* The bytes print_log writes for one record when every write succeeds     *)
(* (lib.rs 254-285).  Text is a sequence of characters; an escape          *)
(* sequence of the Ansi writer is one element.                             *)
(***************************************************************************)
\* the longest file name, in parts
MaxParts == 3

SrcSlash == <<"s", "r", "c", "/">>
DotRs == <<".", "r", "s">>

starts_with(s, prefix) ==
    Len(s) >= Len(prefix) /\ SubSeq(s, 1, Len(prefix)) = prefix
ends_with(s, suffix) ==
    Len(s) >= Len(suffix) /\ SubSeq(s, Len(s) - Len(suffix) + 1, Len(s)) = suffix

\* the decimal digits of a line number, as {} formats a u32
Digits == <<"0", "1", "2", "3", "4", "5", "6", "7", "8", "9">>
RECURSIVE to_string(_)
to_string(n) ==
    IF n < 10 THEN <<Digits[n + 1]>>
    ELSE to_string(n \div 10) \o <<Digits[(n % 10) + 1]>>

unwrap_or(opt, default) == IF opt = None THEN default ELSE opt.some

\* the file name shortened whatever use_full_filename says
print_log_filename_always_short(self, r) ==
    LET filename == unwrap_or(r.file, <<"?">>)
        f1 == IF starts_with(filename, SrcSlash)
              THEN SubSeq(filename, 5, Len(filename)) ELSE filename
    IN  IF ends_with(f1, DotRs) THEN SubSeq(f1, 1, Len(f1) - 3) ELSE f1
\* print_log, lines 258-268: strip "src/" prefix and ".rs" suffix
print_log_filename(self, r) ==
    LET filename == unwrap_or(r.file, <<"?">>) IN
    IF ~self.use_full_filename /\ (r.level = "Debug" \/ r.level = "Trace")
    THEN LET f1 == IF starts_with(filename, SrcSlash)
                   THEN SubSeq(filename, 5, Len(filename)) ELSE filename
         IN  IF ends_with(f1, DotRs) THEN SubSeq(f1, 1, Len(f1) - 3) ELSE f1
    ELSE filename

\* print_log, lines 272-282: the arguments of the writeln! of the level
print_log_line(self, r) ==
    LET location == <<"[">> \o print_log_filename(self, r) \o <<":">>
                    \o to_string(unwrap_or(r.line, 0)) \o <<"]", " ">>
    IN  CASE r.level = "Error" -> <<"[", "E", "R", "R", "O", "R", "]", " ">> \o r.args
          [] r.level = "Warn"  -> <<"[", "W", "A", "R", "N", "]", " ">> \o r.args
          [] r.level = "Info"  -> r.args
          [] r.level = "Debug" -> <<"[", "D", "E", "B", "U", "G", "]">> \o location \o r.args
          [] r.level = "Trace" -> <<"[", "T", "R", "A", "C", "E", "]">> \o location \o r.args

\* LogColors::new: the ColorSpec of each level, as the escapes the Ansi
\* writer's set_color emits for it (a reset first, then bold, then the colour)
ColorSpecEscapes(l) ==
    CASE l = "Error" -> <<"ESC[0m", "ESC[1m", "ESC[31m">>
      [] l = "Warn"  -> <<"ESC[0m", "ESC[1m", "ESC[33m">>
      [] l = "Info"  -> <<"ESC[0m">>
      [] l = "Debug" -> <<"ESC[0m", "ESC[36m">>
      [] l = "Trace" -> <<"ESC[0m", "ESC[34m">>

Escapes == {"ESC[0m", "ESC[1m", "ESC[31m", "ESC[33m", "ESC[34m", "ESC[36m"}

\* print_log from set_color to reset, every write Ok
print_log(self, r) ==
    (IF self.out = "Ansi" THEN ColorSpecEscapes(r.level) ELSE <<>>)
    \o print_log_line(self, r) \o <<"\n">>
    \o (IF self.out = "Ansi" THEN <<"ESC[0m">> ELSE <<>>)

RECURSIVE Flatten(_)
Flatten(ss) == IF ss = <<>> THEN <<>> ELSE Head(ss) \o Flatten(Tail(ss))

\* file names made of the pieces the shortening looks for
FileParts == {SrcSlash, DotRs, <<"a">>, <<"r", "s">>}
FileNames == {Flatten(ps) : ps \in UNION {[1 .. n -> FileParts] : n \in 0 .. MaxParts}}
Some(x) == [some |-> x]
Records ==
    [level : Levels,
     args : {<<"h", "i">>, <<>>, <<"[", "x", "]">>},
     file : {None} \cup {Some(f) : f \in FileNames},
     line : {None, Some(0), Some(7), Some(120)}]

InitFmt ==
    /\ isTerminal = TRUE /\ envSuppresses = FALSE
    /\ logger = None /\ mode = "unset" /\ probe = NoProbe
    /\ \E full \in BOOLEAN, c \in {"Always", "Never"} :
          slot = full_filename(color(with_verbosity(5, TRUE, FALSE), c, TRUE, FALSE),
                               full)
    /\ maxLevel = slot.level /\ lastInit = "Ok" /\ delivered = None
    /\ record \in Records
    /\ fmtOut = None
    /\ IdleLv /\ IdleRun

\* one record goes through print_log
PrintLog ==
    /\ fmtOut = None
    /\ fmtOut' = Some(print_log(slot, record))
    /\ UNCHANGED <<record, cfgVars, lvVars, envVars, regVars, runVars>>

NextFmt == PrintLog

SpecFmt == InitFmt /\ [][NextFmt]_vars

(***************************************************************************)
(* The order of the severities the properties speak of.                    *)
(***************************************************************************)
Order == <<"Off", "Error", "Warn", "Info", "Debug", "Trace">>
Num(l) == (CHOOSE i \in 1 .. Len(Order) : Order[i] = l) - 1
Numbered(n) == Order[n + 1]
Min(a, b) == IF a < b THEN a ELSE b
Max(a, b) == IF a > b THEN a ELSE b
Top == Len(Order) - 1

(***************************************************************************)
(* C6: verbosity arithmetic saturates over the whole u8 domain:            *)
(* with_verbosity(n) yields the threshold numbered min(n, 5), verbose(d)   *)
(* the one numbered min(num(L) + d, 5), quiet(d) the one numbered          *)
(* max(num(L) - d, 0), and the threshold is always one of the six levels.  *)
(***************************************************************************)
C6_VerbositySaturates ==
    /\ logger.level \in LevelFilters
    /\ lastOp.op = "with_verbosity" => logger.level = Numbered(Min(arg, Top))
    /\ lastOp.op = "verbose" =>
           logger.level = Numbered(Min(Num(lastOp.before) + arg, Top))
    /\ lastOp.op = "quiet" =>
           logger.level = Numbered(Max(Num(lastOp.before) - arg, 0))

\* verbose(d) saturated at Trace from below it, with d near the top of u8,
\* and quiet(d) then saturated at Off
C6_Witness ==
    /\ lastOp.op = "quiet" /\ lastOp.before = "Trace"
    /\ rt # None /\ rt.stage = "down" /\ rt.from = "Warn"
    /\ arg > U8Max - 3
    /\ logger.level = "Off"

(***************************************************************************)
(* C7 as claimed: verbose(d) then quiet(d) returns the original threshold  *)
(* L when num(L) + d <= 5, and does not restore L when num(L) + d > 5.     *)
(***************************************************************************)
C7_RoundTripAsClaimed ==
    (rt # None /\ rt.stage = "down") =>
        /\ Num(rt.from) + arg <= Top => logger.level = rt.from
        /\ Num(rt.from) + arg > Top => logger.level # rt.from

(***************************************************************************)
(* C7 amended: verbose(d) then quiet(d) returns L when num(L) + d <= 5;    *)
(* when num(L) + d > 5 it yields the threshold numbered max(5 - d, 0),     *)
(* which differs from L except when L is Off and d > 5, where the round    *)
(* trip goes Off -> Trace -> Off and does restore L.                       *)
(***************************************************************************)
C7_RoundTrip ==
    (rt # None /\ rt.stage = "down") =>
        /\ Num(rt.from) + arg <= Top => logger.level = rt.from
        /\ Num(rt.from) + arg > Top =>
              /\ logger.level = Numbered(Max(Top - arg, 0))
              /\ (logger.level = rt.from) <=> (rt.from = "Off" /\ arg > Top)

\* a round trip that crossed the clamp at Trace and did not come back
C7_Witness ==
    /\ rt # None /\ rt.stage = "down"
    /\ rt.from = "Info" /\ arg = 4
    /\ logger.level = "Error"

(***************************************************************************)
(* C8: in the Configuring state the logger's effective colour choice is    *)
(* resolve(m, isTerminal, envSuppresses), m the mode of the most recent    *)
(* color() call on it or Auto if there was none, with the terminal and     *)
(* the environment as they were at that (re)configuration point.           *)
(***************************************************************************)
resolve(m, tty, suppressed) ==
    CASE m = "Always" -> "Enabled"
      [] m = "Never"  -> "Disabled"
      [] m = "Auto"   -> IF tty /\ ~suppressed THEN "Enabled" ELSE "Disabled"

Effective(out) == IF out = "Ansi" THEN "Enabled" ELSE "Disabled"
ModeAsked == IF mode = "unset" THEN "Auto" ELSE mode

C8_ColourChoice ==
    logger # None => Effective(logger.out) = resolve(ModeAsked, probe.tty, probe.sup)

\* color(Auto) on a terminal, then the terminal goes away and other builder
\* calls follow: the choice is still the one made at the color() call
C8_Witness ==
    /\ logger # None /\ mode = "Auto"
    /\ probe.tty /\ ~probe.sup /\ ~isTerminal
    /\ logger.use_full_filename /\ logger.level = "Trace"
    /\ Effective(logger.out) = "Enabled"
    /\ resolve(ModeAsked, isTerminal, envSuppresses) = "Disabled"

(***************************************************************************)
(* C2: once a logger is registered, no operation replaces or removes it,   *)
(* a later try_init returns the error, and for every severity whether a    *)
(* record sent through the facade (the facade's max-level gate, then the   *)
(* logger's own gate) reaches the output is the same after as before.      *)
(***************************************************************************)
C2_FirstLoggerStaysActive ==
    [][slot # None =>
          /\ slot' = slot
          /\ (logger # None /\ logger' = None) => lastInit' \in {"Err", "panic"}
          /\ \A l \in Levels : Reaches(l)' = Reaches(l)]_vars

\* the part of C2 that the code does keep: registration is one-shot
C2_RegistrationIsOneShot ==
    [][slot # None =>
          /\ slot' = slot
          /\ (logger # None /\ logger' = None) => lastInit' \in {"Err", "panic"}]_vars

(***************************************************************************)
(* What the calls have written.                                            *)
(***************************************************************************)
\* the places of the stream written by call k of thread t
Written(t, k) == {i \in 1 .. Len(stream) : stream[i][1] = t /\ stream[i][2] = k}
WroteKind(t, k, kind) == \E i \in Written(t, k) : stream[i][3] = kind

\* the last call of t was a log call and has returned
Returned(t) == pc[t] = "idle" /\ op[t] = "log"

(***************************************************************************)
(* C1: for every threshold and every record severity, Logger::enabled is   *)
(* true iff the severity is at most the threshold in the order             *)
(* Off<Error<Warn<Info<Debug<Trace, and Logger::log writes to the output   *)
(* iff enabled is true: nothing at all for a record that is not enabled,   *)
(* and for an enabled one the line, or, when the stream refused a write,   *)
(* the two fallback lines.  Off admits nothing, Trace everything.          *)
(***************************************************************************)
C1_GateDecidesWrite ==
    LET en == Num(record.level) <= Num(slot.level) IN
    /\ enabled(slot, record.level) <=> en
    /\ stream # <<>> => en
    /\ \A t \in DOMAIN pc :
          Returned(t) =>
             /\ <<t, ncalls[t]>> \in passed <=> en
             /\ Written(t, ncalls[t]) # {} <=> en
             /\ en => \/ /\ WroteKind(t, ncalls[t], "text")
                         /\ WroteKind(t, ncalls[t], "newline")
                      \/ /\ WroteKind(t, ncalls[t], "LOGGING ERROR")
                         /\ WroteKind(t, ncalls[t], "Original message")
             /\ slot.level = "Off" => Written(t, ncalls[t]) = {}
             /\ slot.level = "Trace" => Written(t, ncalls[t]) # {}

\* an Error record passed the Info threshold and its line is written
C1_Witness ==
    /\ slot.level = "Info" /\ record.level = "Error"
    /\ Returned(1) /\ ncalls[1] = 1
    /\ WroteKind(1, 1, "text") /\ WroteKind(1, 1, "newline")

\* a Trace record did not pass the Info threshold and nothing is written
C1_WitnessDropped ==
    /\ slot.level = "Info" /\ record.level = "Trace"
    /\ Returned(1) /\ ncalls[1] = MaxCalls
    /\ stream = <<>>

(***************************************************************************)
(* C3: when the threads have returned from their calls, the stream holds   *)
(* exactly one complete line for each record that passed the threshold     *)
(* (N*M of them when each of N threads submitted M), each the whole        *)
(* set-style / text / newline / reset-style unit of one call with nothing  *)
(* of another thread inside it, in any order across threads.               *)
(***************************************************************************)
Unit(t, k) ==
    IF slot.out = "Ansi"
    THEN << <<t, k, "set_color">>, <<t, k, "text">>, <<t, k, "newline">>,
            <<t, k, "reset">> >>
    ELSE << <<t, k, "text">>, <<t, k, "newline">> >>

UnitLen == IF slot.out = "Ansi" THEN 4 ELSE 2

Quiescent == \A t \in DOMAIN pc : pc[t] = "idle"

\* the b-th line of the stream, counted from 0
Block(b) == SubSeq(stream, b * UnitLen + 1, (b + 1) * UnitLen)

C4_LogNeverPanics == \A t \in DOMAIN pc : pc[t] # "panicked"

(***************************************************************************)
(* C5: under fair scheduling every call of log and flush eventually        *)
(* returns.                                                                *)
(***************************************************************************)
C5_EveryCallReturns == \A t \in Threads : (pc[t] # "idle") ~> (pc[t] = "idle")

\* what the code does keep of C5: the Mutex is held only inside the write
\* cycle or the flush of the thread that took it, so it is released on
\* every path, and every call comes to an end, by returning or by
\* the panic of eprintln!
C5_MutexHeldOnlyInCycle ==
    \A t \in DOMAIN pc :
        mutex = t <=> pc[t] \in {"set_color", "write", "newline", "reset", "flush"}

C5_EveryCallEnds ==
    \A t \in Threads : (pc[t] # "idle") ~> (pc[t] \in {"idle", "panicked"})

(***************************************************************************)
(* C10: every log call that sets a level style on the stream has called    *)
(* reset before it releases the Mutex and before anything else (its        *)
(* fallback lines, a later record) is written, on every path.              *)
(***************************************************************************)
OutsideCycle == {"idle", "eprintln_error", "eprintln_original", "panicked"}

C10_StyleAlwaysReset ==
    \A t \in DOMAIN pc :
        (op[t] = "log" /\ styled[t] /\ pc[t] \in OutsideCycle) => resetIssued[t]

(***************************************************************************)
(* C9: styling aside, the text print_log writes is the reference layout:   *)
(* "[ERROR] " + msg, "[WARN] " + msg, msg alone for Info,                  *)
(* "[DEBUG][file:line] " + msg and "[TRACE][file:line] " + msg, where      *)
(* file defaults to "?" and line to 0, and, only when the full-filename    *)
(* flag is false, file loses one leading "src/" and then one trailing      *)
(* ".rs"; the text is the same with colour Enabled and Disabled.           *)
(***************************************************************************)
Chars(str) ==
    CASE str = "[ERROR] " -> <<"[", "E", "R", "R", "O", "R", "]", " ">>
      [] str = "[WARN] "  -> <<"[", "W", "A", "R", "N", "]", " ">>
      [] str = "[DEBUG]"  -> <<"[", "D", "E", "B", "U", "G", "]">>
      [] str = "[TRACE]"  -> <<"[", "T", "R", "A", "C", "E", "]">>
      [] str = "src/"     -> <<"s", "r", "c", "/">>
      [] str = ".rs"      -> <<".", "r", "s">>

\* s without the leading p, when some rest makes s = p + rest
WithoutPrefix(s, p) ==
    IF \E n \in 0 .. Len(s) : s = p \o SubSeq(s, Len(s) - n + 1, Len(s))
    THEN SubSeq(s, Len(p) + 1, Len(s)) ELSE s
WithoutSuffix(s, p) ==
    IF \E n \in 0 .. Len(s) : s = SubSeq(s, 1, n) \o p
    THEN SubSeq(s, 1, Len(s) - Len(p)) ELSE s

RefFile(r, full) ==
    LET file == IF r.file = None THEN <<"?">> ELSE r.file.some
    IN  IF full THEN file ELSE WithoutSuffix(WithoutPrefix(file, Chars("src/")), Chars(".rs"))

RefLine(r) == IF r.line = None THEN <<"0">> ELSE to_string(r.line.some)

RefLocation(r, full) == <<"[">> \o RefFile(r, full) \o <<":">> \o RefLine(r) \o <<"]", " ">>

RefLayout(r, full) ==
    CASE r.level = "Error" -> Chars("[ERROR] ") \o r.args
      [] r.level = "Warn"  -> Chars("[WARN] ") \o r.args
      [] r.level = "Info"  -> r.args
      [] r.level = "Debug" -> Chars("[DEBUG]") \o RefLocation(r, full) \o r.args
      [] r.level = "Trace" -> Chars("[TRACE]") \o RefLocation(r, full) \o r.args

IsText(c) == c \notin Escapes
StylingAside(bytes) == SelectSeq(bytes, IsText)

C9_Layout ==
    fmtOut # None =>
        StylingAside(fmtOut.some) = RefLayout(record, slot.use_full_filename) \o <<"\n">>

\* a Debug record of src/a.rs, line 7, written in colour with the short name
C9_Witness ==
    /\ fmtOut # None
    /\ record.level = "Debug" /\ record.file = Some(<<"s", "r", "c", "/", "a", ".", "r", "s">>)
    /\ record.line = Some(7) /\ record.args = <<"h", "i">>
    /\ ~slot.use_full_filename /\ slot.out = "Ansi"
    /\ StylingAside(fmtOut.some) =
          <<"[", "D", "E", "B", "U", "G", "]", "[", "a", ":", "7", "]", " ", "h", "i", "\n">>
    /\ fmtOut.some # StylingAside(fmtOut.some)

====
